---- MODULE Spec2Model ----
(***************************************************************************)
(* Model of the WordPress plugin performance experiment controller         *)
(* (src/index.js): baseline capture, the per-plugin deactivate / measure / *)
(* reactivate loop, progress.json checkpoints, the 'stop' listener,        *)
(* --resume, and the release of the connection and the ranking that end    *)
(* main().                                                                 *)
(*                                                                         *)
(* Numbers.  A performance score is a JavaScript number; it is modelled as *)
(* an integer count of thousandths of a point, so that toFixed(2), which   *)
(* rounds to hundredths, is a real conversion.  A toFixed(2) string is     *)
(* modelled by the integer count of hundredths it denotes.                 *)
(*                                                                         *)
(* Scheduling.  Node runs each piece of code between two awaits to         *)
(* completion; an action of the model is one such piece.  The 'line'       *)
(* listener runs only while main() is suspended at an await.               *)
(***************************************************************************)
EXTENDS Integers, Sequences, FiniteSets, TLC

\* ------------------------------------------------------------------ bounds
\* Plugins installed on the server.
NumPlugins == 2
\* Distinct URLs among the entries of PAGES_TO_TEST (line 20).
NumPages == 2
\* Processes started one after the other.
MaxRuns == 2
\* Lighthouse runs that may fail in one process.
MaxFailures == 1
\* Entries of an impact record the sort is checked on by itself.
MaxRanked == 3

\* ------------------------------------------------------- program constants
\* The string 'Error' that testPerformance stores for a failed page; every
\* score is >= 0, so -1 is distinct from every score.
Error == -1

Plugins == 1..NumPlugins
\* The distinct keys of PAGES_TO_TEST, in order.
PAGES_TO_TEST == 1..NumPages

\* Scores (thousandths of a point) the measurement tool returns in the
\* controller runs, and the larger set the pure functions are checked on.
\* No difference of two of them ends in 5 thousandths (a decimal tie, whose
\* rounding depends on the binary representation).
CtlScores == {80004}
Scores == {0, 79996, 80000, 80004, 80010, 90000}

Inputs == {"stop", "STOP", "status"}

\* ------------------------------------------------------------ conversions
\* Number.prototype.toFixed(2): the nearest hundredth, as a decimal string.
ToFixed2(x) == IF x >= 0 THEN (x + 5) \div 10 ELSE -((-x + 5) \div 10)

\* parseFloat of a toFixed(2) string: the number it denotes, in thousandths.
ParseFloat(s) == s * 10

\* String.prototype.toLowerCase on the inputs of the model.
ToLowerCase(s) == IF s = "STOP" THEN "stop" ELSE s

\* --------------------------------------------------------- pure functions
ErrorCmp == [error |-> TRUE]

\* ComparePage with faster decided by >= instead of >.
ComparePage_FasterOrEqual(b, c) ==
  IF b # Error /\ c # Error
  THEN LET diff == c - b
       IN [error |-> FALSE, diff |-> ToFixed2(diff), faster |-> diff >= 0,
           baseline |-> ToFixed2(b), current |-> ToFixed2(c)]
  ELSE ErrorCmp

\* ComparePage with only the current measurement tested for 'Error'.
ComparePage_CurrentOnly(b, c) ==
  IF c # Error
  THEN LET diff == c - b
       IN [error |-> FALSE, diff |-> ToFixed2(diff), faster |-> diff > 0,
           baseline |-> ToFixed2(b), current |-> ToFixed2(c)]
  ELSE ErrorCmp

\* One page of comparePerformance (lines 108-118).
ComparePage(b, c) ==
  IF b # Error /\ c # Error
  THEN LET diff == c - b
       IN [error |-> FALSE, diff |-> ToFixed2(diff), faster |-> diff > 0,
           baseline |-> ToFixed2(b), current |-> ToFixed2(c)]
  ELSE ErrorCmp

\* comparePerformance: one comparison per key of baseline.
comparePerformance(baseline, current) ==
  [page \in DOMAIN baseline |-> ComparePage(baseline[page], current[page])]

\* performanceImpact[name] = cmp on an object that keeps insertion order.
HasKey(obj, name) == \E k \in 1..Len(obj) : obj[k].name = name

SetKey(obj, name, cmp) ==
  IF HasKey(obj, name)
  THEN [k \in 1..Len(obj) |->
          IF obj[k].name = name THEN [name |-> name, cmp |-> cmp] ELSE obj[k]]
  ELSE Append(obj, [name |-> name, cmp |-> cmp])

GetKey(obj, name) == (CHOOSE k \in 1..Len(obj) : obj[k].name = name)

Keys(obj) == {obj[k].name : k \in 1..Len(obj)}

\* The reduce of lines 285-292 over Object.values of one entry, taken up to
\* page n: the sum of parseFloat(comparison.diff), 0 for 'Error'.
RECURSIVE SumDiffs(_, _)
SumDiffs(cmp, n) ==
  IF n = 0 THEN 0
  ELSE SumDiffs(cmp, n - 1)
         + (IF cmp[n] # ErrorCmp THEN ParseFloat(cmp[n].diff) ELSE 0)

OverallImpact(entry) == SumDiffs(entry.cmp, Len(entry.cmp))

\* SortOrder with the operands of the subtraction exchanged.
SortOrder_Ascending(a, b) == OverallImpact(a) - OverallImpact(b)

\* The comparator of line 284-294: sumB - sumA.
SortOrder(a, b) == OverallImpact(b) - OverallImpact(a)

\* Array.prototype.sort with that comparator.  The sort of the language is
\* stable; for arrays this short the engine sorts by insertion: x is placed
\* behind every element that does not have to come after it.
InsertSorted(sorted, x) ==
  LET before == {j \in 1..Len(sorted) : SortOrder(sorted[j], x) <= 0}
      n == Cardinality(before)
  IN SubSeq(sorted, 1, n) \o <<x>> \o SubSeq(sorted, n + 1, Len(sorted))

RECURSIVE SortEntries(_, _)
SortEntries(entries, n) ==
  IF n = 0 THEN <<>>
  ELSE InsertSorted(SortEntries(entries, n - 1), entries[n])

\* Object.entries(performanceImpact).sort(...)
SortImpact(obj) == SortEntries(obj, Len(obj))

\* ------------------------------------------------------------------ state
VARIABLES
  run,                  \* number of the process started (1..MaxRuns)
  resume,               \* the --resume flag of this process
  pc,                   \* where main() is
  connected,            \* ssh has an open connection
  rlOpen,               \* the readline interface is open
  shouldStop, plugins, baselinePerformance, performanceImpact,
  currentIteration,     \* the globals of lines 22-26
  i,                    \* the loop variable of line 220
  results,              \* the results object of the testPerformance running
  file,                 \* progress.json
  remote,               \* remote[p]: plugin p is active on the server
  \* history of this process
  issuedOff, issuedOn,  \* names a deactivate / activate command was sent for
  toggleFailed,         \* a toggle command of this process failed
  extFault,             \* an external call threw on an established connection
  measured,             \* lighthouse runs finished
  activated,            \* activate calls that returned
  saveCalls,            \* calls of saveProgress
  wroteFile,            \* a checkpoint was written by this process
  restored, hadFile,    \* loadProgress returned true; progress.json existed
  startIter,            \* currentIteration when the loop was entered
  stopIter,             \* {k} when 'stop' first came during iteration k
  abortCause,           \* what the catch of main caught
  failures,             \* <<pass, page>> pairs whose lighthouse run threw
  outputs,              \* the last measurement pass taken per plugin
  \* the end of main()
  sortedImpact,         \* the const of line 284, <<>> until it is computed
  disposeCalls,         \* calls of ssh.dispose() by this process
  \* the pure-function harness
  inB, inC, outCmp, inImpact, outRank

ctl == <<run, resume, pc, connected, rlOpen, shouldStop, plugins,
         baselinePerformance, performanceImpact, currentIteration, i, results,
         file, remote>>
hist == <<issuedOff, issuedOn, toggleFailed, extFault, measured, activated,
          saveCalls, wroteFile, restored, hadFile, startIter, stopIter,
          abortCause, failures, outputs>>
fin == <<sortedImpact, disposeCalls>>
pure == <<inB, inC, outCmp, inImpact, outRank>>
vars == <<ctl, hist, fin, pure>>

NoFile == [exists |-> FALSE]
Outcomes == CtlScores \cup {Error}

\* Positions where main() is suspended at an await.
AwaitPcs == {"connecting", "listing", "baseline", "deactivating", "settle1",
             "measuring", "activating", "settle2", "analyzing"}
\* Positions behind the loop (lines 279-321).
EndPcs == {"ranking", "analyzing", "done"}
\* Positions inside one iteration of the loop (lines 243-275).
IterPcs == {"deactivating", "settle1", "measuring", "activating", "settle2"}
TerminalPcs == {"done", "aborted"}

\* The globals and the history of a process that has just started.
FreshProcess ==
  /\ pc = "start"
  /\ connected = FALSE /\ rlOpen = FALSE
  /\ shouldStop = FALSE /\ plugins = <<>> /\ baselinePerformance = <<>>
  /\ performanceImpact = <<>> /\ currentIteration = 0
  /\ i = 0 /\ results = <<>>
  /\ issuedOff = {} /\ issuedOn = {} /\ toggleFailed = FALSE
  /\ extFault = FALSE /\ measured = 0 /\ activated = 0 /\ saveCalls = 0
  /\ wroteFile = FALSE /\ restored = FALSE /\ hadFile = FALSE
  /\ startIter = 0
  /\ stopIter = {} /\ abortCause = "none" /\ failures = {}
  /\ sortedImpact = <<>> /\ disposeCalls = 0

Init ==
  /\ FreshProcess
  /\ run = 1
  /\ resume \in BOOLEAN
  /\ file = NoFile
  /\ remote \in [Plugins -> BOOLEAN]
  /\ outputs = [p \in {} |-> <<>>]
  /\ inB = <<>> /\ inC = <<>> /\ outCmp = <<>>
  /\ inImpact = <<>> /\ outRank = <<>>

\* ---------------------------------------------------------------- helpers
\* The catch of main (lines 322-325): the error is logged and main returns;
\* nothing is closed or restored.
Abort(cause) == pc' = "aborted" /\ abortCause' = cause

\* plugins[i] of the code; the sequence of the model starts at 1.
PluginAt(k) == plugins[k + 1]

\* What `wp plugin list --format=json` returns.
RemoteList ==
  [k \in 1..NumPlugins |->
     [name |-> k, status |-> IF remote[k] THEN "active" ELSE "inactive"]]

\* What one runLighthouse may end with: a score, or (at most MaxFailures
\* times in a process) an exception.
LighthouseOutcomes ==
  IF Cardinality(failures) < MaxFailures THEN Outcomes ELSE CtlScores

\* The history of measurement passes with pass `pass` set to r.
Record(pass, r) ==
  [p \in DOMAIN outputs \cup {pass} |-> IF p = pass THEN r ELSE outputs[p]]

\* The object saveProgress writes.
Progress(iter) ==
  [exists |-> TRUE, plugins |-> plugins,
   baselinePerformance |-> baselinePerformance,
   performanceImpact |-> performanceImpact, currentIteration |-> iter]

\* ------------------------------------------------------- start of main()
\* What loadProgress() does when progress.json exists, and the code after it
\* up to the loop: the globals are read from the file, the 'line' listener is
\* installed; nothing connects to the server.
LoadAndEnterLoop ==
  /\ plugins' = file.plugins
  /\ baselinePerformance' = file.baselinePerformance
  /\ performanceImpact' = file.performanceImpact
  /\ currentIteration' = file.currentIteration
  /\ restored' = TRUE /\ hadFile' = TRUE
  /\ startIter' = file.currentIteration
  /\ rlOpen' = TRUE
  /\ i' = file.currentIteration
  /\ pc' = "loop"
  /\ UNCHANGED <<run, resume, connected, shouldStop, results, file, remote>>
  /\ UNCHANGED <<issuedOff, issuedOn, toggleFailed, extFault, measured,
                 activated, saveCalls, wroteFile, stopIter, abortCause,
                 failures, outputs>>
  /\ UNCHANGED pure
  /\ UNCHANGED fin

\* StartResume with progress.json loaded whether or not --resume is given.
StartResume_IgnoresFlag ==
  /\ pc = "start" /\ file.exists
  /\ LoadAndEnterLoop

\* resume && loadProgress() is true (line 194).
StartResume ==
  /\ pc = "start" /\ resume /\ file.exists
  /\ LoadAndEnterLoop

StartFresh ==
  /\ pc = "start" /\ ~(resume /\ file.exists)
  /\ hadFile' = file.exists
  /\ outputs' = [p \in {} |-> <<>>]
  /\ pc' = "connecting"
  /\ UNCHANGED <<run, resume, connected, rlOpen, shouldStop, plugins,
                 baselinePerformance, performanceImpact, currentIteration, i,
                 results, file, remote>>
  /\ UNCHANGED <<issuedOff, issuedOn, toggleFailed, extFault, measured,
                 activated, saveCalls, wroteFile, restored, startIter,
                 stopIter, abortCause, failures>>
  /\ UNCHANGED pure
  /\ UNCHANGED fin

ConnectOk ==
  /\ pc = "connecting"
  /\ connected' = TRUE
  /\ pc' = "listing"
  /\ UNCHANGED <<run, resume, rlOpen, shouldStop, plugins,
                 baselinePerformance, performanceImpact, currentIteration, i,
                 results, file, remote>>
  /\ UNCHANGED hist
  /\ UNCHANGED pure
  /\ UNCHANGED fin

\* ConnectThrow with the rejection of ssh.connect caught and passed over:
\* main goes on to fetch the plugin list.
ConnectThrow_Continues ==
  /\ pc = "connecting"
  /\ extFault' = TRUE
  /\ abortCause' = "connect"
  /\ pc' = "listing"
  /\ UNCHANGED <<run, resume, connected, rlOpen, shouldStop, plugins,
                 baselinePerformance, performanceImpact, currentIteration, i,
                 results, file, remote>>
  /\ UNCHANGED <<issuedOff, issuedOn, toggleFailed, measured, activated,
                 saveCalls, wroteFile, restored, hadFile, startIter,
                 stopIter, failures, outputs>>
  /\ UNCHANGED fin
  /\ UNCHANGED pure

\* ssh.connect rejected (lines 52-56): connectToServer throws into the catch
\* of main.
ConnectThrow ==
  /\ pc = "connecting"
  /\ extFault' = TRUE
  /\ Abort("connect")
  /\ UNCHANGED <<run, resume, connected, rlOpen, shouldStop, plugins,
                 baselinePerformance, performanceImpact, currentIteration, i,
                 results, file, remote>>
  /\ UNCHANGED <<issuedOff, issuedOn, toggleFailed, measured, activated,
                 saveCalls, wroteFile, restored, hadFile, startIter,
                 stopIter, failures, outputs>>
  /\ UNCHANGED pure
  /\ UNCHANGED fin

\* getPluginList returned: plugins is set and the baseline pass starts.
ListOk ==
  /\ pc = "listing"
  /\ plugins' = RemoteList
  /\ results' = <<>>
  /\ pc' = "baseline"
  /\ UNCHANGED <<run, resume, connected, rlOpen, shouldStop,
                 baselinePerformance, performanceImpact, currentIteration, i,
                 file, remote>>
  /\ UNCHANGED hist
  /\ UNCHANGED pure
  /\ UNCHANGED fin

\* execCommand rejected, or JSON.parse threw on what the command printed.
ListThrow ==
  /\ pc = "listing"
  /\ extFault' = TRUE
  /\ Abort("list")
  /\ UNCHANGED <<run, resume, connected, rlOpen, shouldStop, plugins,
                 baselinePerformance, performanceImpact, currentIteration, i,
                 results, file, remote>>
  /\ UNCHANGED <<issuedOff, issuedOn, toggleFailed, measured, activated,
                 saveCalls, wroteFile, restored, hadFile, startIter, stopIter,
                 failures, outputs>>
  /\ UNCHANGED pure
  /\ UNCHANGED fin

\* One runLighthouse of the baseline pass ends with outcome v (an exception
\* is caught in testPerformance and stored as 'Error'); after the last page
\* the baseline is stored, the 'line' listener is installed and the loop is
\* entered (lines 202-220).
BaselinePage(v) ==
  LET r == Append(results, v) IN
  /\ measured' = measured + 1
  /\ failures' = IF v = Error THEN failures \cup {<<0, Len(r)>>}
                 ELSE failures
  /\ IF Len(r) < NumPages
     THEN /\ results' = r
          /\ UNCHANGED <<baselinePerformance, rlOpen, i, pc>>
     ELSE /\ baselinePerformance' = r
          /\ results' = <<>>
          /\ rlOpen' = TRUE
          /\ i' = currentIteration
          /\ pc' = "loop"
  /\ UNCHANGED <<run, resume, connected, shouldStop, plugins,
                 performanceImpact, currentIteration, remote>>
  /\ UNCHANGED <<issuedOff, issuedOn, toggleFailed, extFault, activated,
                 saveCalls, restored, hadFile, startIter, stopIter,
                 abortCause, outputs>>
  /\ UNCHANGED pure
  /\ UNCHANGED fin

\* BaselineStep with a checkpoint written once the baseline is stored.
BaselineStep_Saves ==
  /\ pc = "baseline"
  /\ \E v \in LighthouseOutcomes :
       /\ BaselinePage(v)
       /\ IF Len(results) + 1 < NumPages
          THEN UNCHANGED <<file, wroteFile>>
          ELSE /\ file' = [exists |-> TRUE, plugins |-> plugins,
                           baselinePerformance |->
                              Append(results, v),
                           performanceImpact |-> performanceImpact,
                           currentIteration |-> currentIteration]
               /\ wroteFile' = TRUE

BaselineStep ==
  /\ pc = "baseline"
  /\ \E v \in LighthouseOutcomes : BaselinePage(v)
  /\ UNCHANGED <<file, wroteFile>>

\* ------------------------------------------------------------- the loop
\* Line 220-224: the loop ends, or the stop flag is seen at the top of an
\* iteration.
LoopExit ==
  /\ pc = "loop"
  /\ i >= Len(plugins) \/ shouldStop
  /\ pc' = "finalizing"
  /\ UNCHANGED <<run, resume, connected, rlOpen, shouldStop, plugins,
                 baselinePerformance, performanceImpact, currentIteration, i,
                 results, file, remote>>
  /\ UNCHANGED hist
  /\ UNCHANGED pure
  /\ UNCHANGED fin

\* LoopSkip with saveProgress called for the plugin passed over.
LoopSkip_Saves ==
  /\ pc = "loop"
  /\ i < Len(plugins) /\ ~shouldStop
  /\ PluginAt(i).status # "active"
  /\ currentIteration' = i + 1
  /\ saveCalls' = saveCalls + 1
  /\ file' = Progress(i + 1)
  /\ wroteFile' = TRUE
  /\ i' = i + 1
  /\ UNCHANGED <<run, resume, pc, connected, rlOpen, shouldStop, plugins,
                 baselinePerformance, performanceImpact, results, remote>>
  /\ UNCHANGED <<issuedOff, issuedOn, toggleFailed, extFault, measured,
                 activated, restored, hadFile, startIter, stopIter,
                 abortCause, failures, outputs>>
  /\ UNCHANGED pure
  /\ UNCHANGED fin

\* Line 227: a plugin that is not active is passed over.
LoopSkip ==
  /\ pc = "loop"
  /\ i < Len(plugins) /\ ~shouldStop
  /\ PluginAt(i).status # "active"
  /\ i' = i + 1
  /\ UNCHANGED <<run, resume, pc, connected, rlOpen, shouldStop, plugins,
                 baselinePerformance, performanceImpact, currentIteration,
                 results, file, remote>>
  /\ UNCHANGED hist
  /\ UNCHANGED pure
  /\ UNCHANGED fin

\* LoopDeactivate without the test of plugin.status.
LoopDeactivate_IgnoresStatus ==
  /\ pc = "loop"
  /\ i < Len(plugins) /\ ~shouldStop
  /\ issuedOff' = issuedOff \cup {PluginAt(i).name}
  /\ pc' = "deactivating"
  /\ UNCHANGED <<run, resume, connected, rlOpen, shouldStop, plugins,
                 baselinePerformance, performanceImpact, currentIteration, i,
                 results, file, remote>>
  /\ UNCHANGED <<issuedOn, toggleFailed, extFault, measured, activated,
                 saveCalls, wroteFile, restored, hadFile, startIter,
                 stopIter, abortCause, failures, outputs>>
  /\ UNCHANGED fin
  /\ UNCHANGED pure

\* LoopDeactivate without the test of shouldStop at the top of the loop.
LoopDeactivate_IgnoresStop ==
  /\ pc = "loop"
  /\ i < Len(plugins)
  /\ PluginAt(i).status = "active"
  /\ issuedOff' = issuedOff \cup {PluginAt(i).name}
  /\ pc' = "deactivating"
  /\ UNCHANGED <<run, resume, connected, rlOpen, shouldStop, plugins,
                 baselinePerformance, performanceImpact, currentIteration, i,
                 results, file, remote>>
  /\ UNCHANGED <<issuedOn, toggleFailed, extFault, measured, activated,
                 saveCalls, wroteFile, restored, hadFile, startIter,
                 stopIter, abortCause, failures, outputs>>
  /\ UNCHANGED pure
  /\ UNCHANGED fin

\* Line 244: the deactivate command is sent.
LoopDeactivate ==
  /\ pc = "loop"
  /\ i < Len(plugins) /\ ~shouldStop
  /\ PluginAt(i).status = "active"
  /\ issuedOff' = issuedOff \cup {PluginAt(i).name}
  /\ pc' = "deactivating"
  /\ UNCHANGED <<run, resume, connected, rlOpen, shouldStop, plugins,
                 baselinePerformance, performanceImpact, currentIteration, i,
                 results, file, remote>>
  /\ UNCHANGED <<issuedOn, toggleFailed, extFault, measured, activated,
                 saveCalls, wroteFile, restored, hadFile, startIter, stopIter,
                 abortCause, failures, outputs>>
  /\ UNCHANGED pure
  /\ UNCHANGED fin

\* ssh.execCommand resolved with exit code 0: the plugin is toggled.
\* runWpCliCommand returns stdout, which main ignores.
ToggleOk(name, on, next) ==
  /\ connected
  /\ remote' = [remote EXCEPT ![name] = on]
  /\ pc' = next
  /\ UNCHANGED <<toggleFailed, extFault, abortCause>>

\* ssh.execCommand resolved with a non-zero exit code (wp printed an error):
\* nothing is toggled; runWpCliCommand returns stdout all the same.
ToggleFail(name, on, next) ==
  /\ connected
  /\ toggleFailed' = TRUE
  /\ pc' = next
  /\ UNCHANGED <<remote, extFault, abortCause>>

\* ssh.execCommand rejected: the connection was lost, or was never made
\* (node-ssh rejects a command on a client that is not connected).  The
\* command is taken not to have run.
ToggleThrow(name, on, next) ==
  /\ toggleFailed' = TRUE
  /\ extFault' = (extFault \/ connected)
  /\ Abort("toggle")
  /\ UNCHANGED remote

DeactivateOk ==
  /\ pc = "deactivating"
  /\ ToggleOk(PluginAt(i).name, FALSE, "settle1")
  /\ UNCHANGED <<run, resume, connected, rlOpen, shouldStop, plugins,
                 baselinePerformance, performanceImpact, currentIteration, i,
                 results, file>>
  /\ UNCHANGED <<issuedOff, issuedOn, measured, activated, saveCalls,
                 wroteFile, restored, hadFile, startIter, stopIter, failures,
                 outputs>>
  /\ UNCHANGED pure
  /\ UNCHANGED fin

DeactivateFail ==
  /\ pc = "deactivating"
  /\ ToggleFail(PluginAt(i).name, FALSE, "settle1")
  /\ UNCHANGED <<run, resume, connected, rlOpen, shouldStop, plugins,
                 baselinePerformance, performanceImpact, currentIteration, i,
                 results, file>>
  /\ UNCHANGED <<issuedOff, issuedOn, measured, activated, saveCalls,
                 wroteFile, restored, hadFile, startIter, stopIter, failures,
                 outputs>>
  /\ UNCHANGED pure
  /\ UNCHANGED fin

DeactivateThrow ==
  /\ pc = "deactivating"
  /\ ToggleThrow(PluginAt(i).name, FALSE, "settle1")
  /\ UNCHANGED <<run, resume, connected, rlOpen, shouldStop, plugins,
                 baselinePerformance, performanceImpact, currentIteration, i,
                 results, file>>
  /\ UNCHANGED <<issuedOff, issuedOn, measured, activated, saveCalls,
                 wroteFile, restored, hadFile, startIter, stopIter, failures,
                 outputs>>
  /\ UNCHANGED pure
  /\ UNCHANGED fin

\* Line 247: the 5 s wait is over and testPerformance starts.
Settle1Done ==
  /\ pc = "settle1"
  /\ results' = <<>>
  /\ pc' = "measuring"
  /\ UNCHANGED <<run, resume, connected, rlOpen, shouldStop, plugins,
                 baselinePerformance, performanceImpact, currentIteration, i,
                 file, remote>>
  /\ UNCHANGED hist
  /\ UNCHANGED pure
  /\ UNCHANGED fin

\* MeasurePage with the impact record replaced by an object that holds the
\* new entry only.
MeasurePage_ReplacesRecord(v) ==
  LET r == Append(results, v)
      name == PluginAt(i).name
  IN
  /\ measured' = measured + 1
  /\ failures' = IF v = Error THEN failures \cup {<<name, Len(r)>>}
                 ELSE failures
  /\ IF Len(r) < NumPages
     THEN /\ results' = r
          /\ UNCHANGED <<performanceImpact, issuedOn, outputs, pc>>
     ELSE /\ performanceImpact' =
               <<[name |-> name,
                  cmp |-> comparePerformance(baselinePerformance, r)]>>
          /\ outputs' = Record(name, r)
          /\ results' = <<>>
          /\ issuedOn' = issuedOn \cup {name}
          /\ pc' = "activating"
  /\ UNCHANGED <<run, resume, connected, rlOpen, shouldStop, plugins,
                 baselinePerformance, currentIteration, i, file, remote>>
  /\ UNCHANGED <<issuedOff, toggleFailed, activated, saveCalls, wroteFile,
                 restored, hadFile, startIter, stopIter>>
  /\ UNCHANGED fin
  /\ UNCHANGED pure

\* One runLighthouse of the plugin's pass ends with outcome v (an exception
\* is caught in testPerformance and stored as 'Error'); after the last page
\* the comparison is stored in performanceImpact and the activate command is
\* sent (lines 250-269).
MeasurePage(v) ==
  LET r == Append(results, v)
      name == PluginAt(i).name
  IN
  /\ measured' = measured + 1
  /\ failures' = IF v = Error THEN failures \cup {<<name, Len(r)>>}
                 ELSE failures
  /\ IF Len(r) < NumPages
     THEN /\ results' = r
          /\ UNCHANGED <<performanceImpact, issuedOn, outputs, pc>>
     ELSE /\ performanceImpact' =
               SetKey(performanceImpact, name,
                      comparePerformance(baselinePerformance, r))
          /\ outputs' = Record(name, r)
          /\ results' = <<>>
          /\ issuedOn' = issuedOn \cup {name}
          /\ pc' = "activating"
  /\ UNCHANGED <<run, resume, connected, rlOpen, shouldStop, plugins,
                 baselinePerformance, currentIteration, i, file, remote>>
  /\ UNCHANGED <<issuedOff, toggleFailed, activated, saveCalls, wroteFile,
                 restored, hadFile, startIter, stopIter>>
  /\ UNCHANGED pure
  /\ UNCHANGED fin

\* MeasureStep without the try/catch of testPerformance: the exception of
\* runLighthouse reaches the catch of main.
MeasureStep_NoCatch ==
  /\ pc = "measuring"
  /\ \E v \in LighthouseOutcomes :
       IF v = Error
       THEN /\ Abort("measure")
            /\ extFault' = TRUE
            /\ UNCHANGED <<run, resume, connected, rlOpen, shouldStop,
                           plugins, baselinePerformance, performanceImpact,
                           currentIteration, i, results, file, remote>>
            /\ UNCHANGED <<issuedOff, issuedOn, toggleFailed, measured,
                           activated, saveCalls, wroteFile, restored,
                           hadFile, startIter, stopIter, failures, outputs>>
            /\ UNCHANGED pure
            /\ UNCHANGED fin
       ELSE MeasurePage(v) /\ UNCHANGED <<extFault, abortCause>>

MeasureStep ==
  /\ pc = "measuring"
  /\ \E v \in LighthouseOutcomes : MeasurePage(v)
  /\ UNCHANGED <<extFault, abortCause>>

ActivateOk ==
  /\ pc = "activating"
  /\ ToggleOk(PluginAt(i).name, TRUE, "settle2")
  /\ activated' = activated + 1
  /\ UNCHANGED <<run, resume, connected, rlOpen, shouldStop, plugins,
                 baselinePerformance, performanceImpact, currentIteration, i,
                 results, file>>
  /\ UNCHANGED <<issuedOff, issuedOn, measured, saveCalls, wroteFile,
                 restored, hadFile, startIter, stopIter, failures, outputs>>
  /\ UNCHANGED pure
  /\ UNCHANGED fin

ActivateFail ==
  /\ pc = "activating"
  /\ ToggleFail(PluginAt(i).name, TRUE, "settle2")
  /\ activated' = activated + 1
  /\ UNCHANGED <<run, resume, connected, rlOpen, shouldStop, plugins,
                 baselinePerformance, performanceImpact, currentIteration, i,
                 results, file>>
  /\ UNCHANGED <<issuedOff, issuedOn, measured, saveCalls, wroteFile,
                 restored, hadFile, startIter, stopIter, failures, outputs>>
  /\ UNCHANGED pure
  /\ UNCHANGED fin

ActivateThrow ==
  /\ pc = "activating"
  /\ ToggleThrow(PluginAt(i).name, TRUE, "settle2")
  /\ UNCHANGED <<run, resume, connected, rlOpen, shouldStop, plugins,
                 baselinePerformance, performanceImpact, currentIteration, i,
                 results, file>>
  /\ UNCHANGED <<issuedOff, issuedOn, measured, activated, saveCalls,
                 wroteFile, restored, hadFile, startIter, stopIter, failures,
                 outputs>>
  /\ UNCHANGED pure
  /\ UNCHANGED fin

\* Lines 272-275: the second wait is over; currentIteration = i + 1 and
\* saveProgress() writes progress.json; then the loop goes to i + 1.
SaveOk ==
  /\ pc = "settle2"
  /\ currentIteration' = i + 1
  /\ saveCalls' = saveCalls + 1
  /\ file' = Progress(i + 1)
  /\ wroteFile' = TRUE
  /\ i' = i + 1
  /\ pc' = "loop"
  /\ UNCHANGED <<run, resume, connected, rlOpen, shouldStop, plugins,
                 baselinePerformance, performanceImpact, results, remote>>
  /\ UNCHANGED <<issuedOff, issuedOn, toggleFailed, extFault, measured,
                 activated, restored, hadFile, startIter, stopIter,
                 abortCause, failures, outputs>>
  /\ UNCHANGED pure
  /\ UNCHANGED fin

\* SaveThrow with the exception of fs.writeFileSync caught inside
\* saveProgress: the loop goes on to the next plugin.
SaveThrow_Swallowed ==
  /\ pc = "settle2"
  /\ currentIteration' = i + 1
  /\ saveCalls' = saveCalls + 1
  /\ extFault' = TRUE
  /\ abortCause' = "save"
  /\ i' = i + 1
  /\ pc' = "loop"
  /\ UNCHANGED <<run, resume, connected, rlOpen, shouldStop, plugins,
                 baselinePerformance, performanceImpact, results, file,
                 remote>>
  /\ UNCHANGED <<issuedOff, issuedOn, toggleFailed, measured, activated,
                 wroteFile, restored, hadFile, startIter, stopIter, failures,
                 outputs>>
  /\ UNCHANGED fin
  /\ UNCHANGED pure

\* fs.writeFileSync threw: the catch of main ends the run.
SaveThrow ==
  /\ pc = "settle2"
  /\ currentIteration' = i + 1
  /\ saveCalls' = saveCalls + 1
  /\ extFault' = TRUE
  /\ Abort("save")
  /\ UNCHANGED <<run, resume, connected, rlOpen, shouldStop, plugins,
                 baselinePerformance, performanceImpact, i, results, file,
                 remote>>
  /\ UNCHANGED <<issuedOff, issuedOn, toggleFailed, measured, activated,
                 wroteFile, restored, hadFile, startIter, stopIter, failures,
                 outputs>>
  /\ UNCHANGED pure
  /\ UNCHANGED fin

\* Finalize without the call of ssh.dispose().
Finalize_NoDispose ==
  /\ pc = "finalizing"
  /\ rlOpen' = FALSE
  /\ pc' = "ranking"
  /\ UNCHANGED <<run, resume, connected, shouldStop, plugins,
                 baselinePerformance, performanceImpact, currentIteration, i,
                 results, file, remote>>
  /\ UNCHANGED hist
  /\ UNCHANGED fin
  /\ UNCHANGED pure

\* Lines 279-281: readline is closed and ssh disposed (on a client that
\* never connected, dispose does nothing).
Finalize ==
  /\ pc = "finalizing"
  /\ rlOpen' = FALSE
  /\ connected' = FALSE
  /\ disposeCalls' = disposeCalls + 1
  /\ pc' = "ranking"
  /\ UNCHANGED <<run, resume, shouldStop, plugins, baselinePerformance,
                 performanceImpact, currentIteration, i, results, file,
                 remote>>
  /\ UNCHANGED hist
  /\ UNCHANGED sortedImpact
  /\ UNCHANGED pure

\* Lines 283-317, which run on from line 281 without an await: the entries
\* are sorted and printed, and the summary request is sent.
Report ==
  /\ pc = "ranking"
  /\ sortedImpact' = SortImpact(performanceImpact)
  /\ pc' = "analyzing"
  /\ UNCHANGED <<run, resume, connected, rlOpen, shouldStop, plugins,
                 baselinePerformance, performanceImpact, currentIteration, i,
                 results, file, remote>>
  /\ UNCHANGED hist
  /\ UNCHANGED disposeCalls
  /\ UNCHANGED pure

\* analyzeFinalOutput returned (it catches its own errors); main ends.
Analyzed ==
  /\ pc = "analyzing"
  /\ pc' = "done"
  /\ UNCHANGED <<run, resume, connected, rlOpen, shouldStop, plugins,
                 baselinePerformance, performanceImpact, currentIteration, i,
                 results, file, remote>>
  /\ UNCHANGED hist
  /\ UNCHANGED pure
  /\ UNCHANGED fin

\* ------------------------------------------------------ the 'line' listener
\* Lines 211-216, run while main() is suspended (or has returned with the
\* interface still open).
InputLine ==
  /\ rlOpen
  /\ pc \in AwaitPcs \cup {"aborted"}
  /\ \E input \in Inputs :
       IF ToLowerCase(input) = "stop"
       THEN /\ shouldStop' = TRUE
            /\ stopIter' = IF ~shouldStop /\ pc \in IterPcs THEN {i}
                           ELSE stopIter
       ELSE UNCHANGED <<shouldStop, stopIter>>
  /\ UNCHANGED <<run, resume, pc, connected, rlOpen, plugins,
                 baselinePerformance, performanceImpact, currentIteration, i,
                 results, file, remote>>
  /\ UNCHANGED <<issuedOff, issuedOn, toggleFailed, extFault, measured,
                 activated, saveCalls, wroteFile, restored, hadFile,
                 startIter, abortCause, failures, outputs>>
  /\ UNCHANGED pure
  /\ UNCHANGED fin

\* ------------------------------------------------------------ a new process
\* The operator starts the script again (after ending a process that main
\* left behind): the globals start from lines 22-26; progress.json and the
\* server keep their state.
Restart ==
  /\ pc \in TerminalPcs
  /\ run < MaxRuns
  /\ run' = run + 1
  /\ resume' \in BOOLEAN
  /\ pc' = "start"
  /\ connected' = FALSE /\ rlOpen' = FALSE
  /\ shouldStop' = FALSE /\ plugins' = <<>> /\ baselinePerformance' = <<>>
  /\ performanceImpact' = <<>> /\ currentIteration' = 0
  /\ i' = 0 /\ results' = <<>>
  /\ issuedOff' = {} /\ issuedOn' = {} /\ toggleFailed' = FALSE
  /\ extFault' = FALSE /\ measured' = 0 /\ activated' = 0 /\ saveCalls' = 0
  /\ wroteFile' = FALSE /\ restored' = FALSE /\ hadFile' = FALSE
  /\ startIter' = 0
  /\ stopIter' = {} /\ abortCause' = "none" /\ failures' = {}
  /\ sortedImpact' = <<>> /\ disposeCalls' = 0
  /\ UNCHANGED <<file, remote, outputs>>
  /\ UNCHANGED pure

Next ==
  \/ StartResume \/ StartFresh \/ ConnectOk \/ ConnectThrow
  \/ ListOk \/ ListThrow \/ BaselineStep
  \/ LoopExit \/ LoopSkip \/ LoopDeactivate
  \/ DeactivateOk \/ DeactivateFail \/ DeactivateThrow
  \/ Settle1Done \/ MeasureStep
  \/ ActivateOk \/ ActivateFail \/ ActivateThrow
  \/ SaveOk \/ SaveThrow
  \/ Finalize \/ Report \/ Analyzed \/ InputLine \/ Restart

Spec == Init /\ [][Next]_vars

\* --------------------------------------------- comparePerformance alone
\* comparePerformance applied to every pair of measurement passes over
\* PAGES_TO_TEST whose values are scores of Scores or 'Error'.
Passes == [PAGES_TO_TEST -> Scores \cup {Error}]

InitCompare ==
  /\ FreshProcess
  /\ run = 1 /\ resume = FALSE /\ file = NoFile
  /\ remote = [p \in Plugins |-> TRUE]
  /\ outputs = [p \in {} |-> <<>>]
  /\ inB \in Passes /\ inC \in Passes
  /\ outCmp = <<>>
  /\ inImpact = <<>> /\ outRank = <<>>

Compare ==
  /\ outCmp = <<>>
  /\ outCmp' = comparePerformance(inB, inC)
  /\ UNCHANGED <<ctl, hist, fin, inB, inC, inImpact, outRank>>

NextCompare == Compare

SpecCompare == InitCompare /\ [][NextCompare]_vars

\* ----------------------------------------------------- the ranking alone
\* The sort of lines 284-294 applied to every impact record of up to
\* MaxRanked entries, in processing order, whose comparisons are ones
\* comparePerformance produces from RankBaselines and RankCurrents.
RankBaselines == {Error, 80000}
RankCurrents == {75000, 90000}
RankCmps ==
  [PAGES_TO_TEST -> {ComparePage(b, c) : b \in RankBaselines,
                                        c \in RankCurrents}]

RankEntries(n) ==
  {[k \in 1..n |-> [name |-> k, cmp |-> f[k]]] : f \in [1..n -> RankCmps]}

InitRank ==
  /\ FreshProcess
  /\ run = 1 /\ resume = FALSE /\ file = NoFile
  /\ remote = [p \in Plugins |-> TRUE]
  /\ outputs = [p \in {} |-> <<>>]
  /\ inB = <<>> /\ inC = <<>> /\ outCmp = <<>>
  /\ \E n \in 0..MaxRanked : inImpact \in RankEntries(n)
  /\ outRank = <<>>

RankInput ==
  /\ outRank = <<>>
  /\ outRank' = SortImpact(inImpact)
  /\ UNCHANGED <<ctl, hist, fin, inB, inC, outCmp, inImpact>>

NextRank == RankInput

SpecRank == InitRank /\ [][NextRank]_vars

\* ------------------------------------------------------------ vocabulary
Active(pl) == pl.status = "active"

\* The plugins of the list that were active when the experiment started.
Eligible == SelectSeq(plugins, Active)

\* main() has returned and nothing keeps the event loop alive: the readline
\* interface on stdin is closed and ssh holds no connection.  Only then does
\* the node process end by itself.
ProcessExits == pc \in TerminalPcs /\ ~rlOpen /\ ~connected

\* A run nobody stopped and no external call failed in.
Undisturbed == ~shouldStop /\ ~extFault

\* The impact record of one uninterrupted run over the same plugin list,
\* baseline and measurement outputs: one entry per eligible plugin, in list
\* order.
UninterruptedImpact ==
  [k \in 1..Len(Eligible) |->
     [name |-> Eligible[k].name,
      cmp |-> comparePerformance(baselinePerformance,
                                 outputs[Eligible[k].name])]]

\* An uninterrupted fresh run does end with UninterruptedImpact.
FreshRunImpact ==
  (pc = "done" /\ ~restored /\ Undisturbed) =>
     /\ \A k \in 1..Len(Eligible) : Eligible[k].name \in DOMAIN outputs
     /\ performanceImpact = UninterruptedImpact

\* ================================================================ claims
\* The names of the plugins at the indices from..Len(plugins)-1 of the list.
NamesFrom(from) == {plugins[k].name : k \in (from + 1)..Len(plugins)}

\* C1.  A process started with --resume from a checkpoint whose
\* currentIteration is k sends toggle commands only for plugins at indices
\* k..n-1, takes no baseline pass, and, when nobody stops it and no external
\* call fails, ends with the impact record of one uninterrupted run.
C1_ResumeEqualsUninterrupted ==
  (restored /\ pc \in TerminalPcs /\ Undisturbed) =>
     /\ issuedOff \subseteq NamesFrom(startIter)
     /\ \A f \in failures : f[1] # 0
     /\ \A k \in 1..Len(Eligible) : Eligible[k].name \in DOMAIN outputs
     /\ performanceImpact = UninterruptedImpact

\* C2.  When main() has ended (loop completed, loop left on 'stop', or an
\* error caught), every plugin that was active when the experiment started
\* is active on the server.
C2_AllRestoredAtEnd ==
  pc \in TerminalPcs =>
     \A k \in 1..Len(plugins) : Active(plugins[k]) => remote[plugins[k].name]

\* Once the flag is set no deactivate command is sent.
C3_NoDeactivateAfterStop ==
  shouldStop => ~(pc = "loop" /\ pc' = "deactivating")

\* The flag is not acted on inside an iteration: from a position inside an
\* iteration the run moves only to the next position of the iteration, to
\* the top of the loop or to the catch.
C3_IterationNotLeft ==
  (shouldStop /\ pc \in IterPcs) => pc' \in IterPcs \cup {"loop", "aborted"}

\* When the loop is left after a 'stop' that arrived during iteration k,
\* iteration k is complete: its comparison is recorded, its activate command
\* was sent, currentIteration is k + 1 and progress.json holds that state.
C3_StoppedAfterCompleteIteration ==
  pc = "finalizing" =>
     \A k \in stopIter :
        /\ currentIteration = k + 1
        /\ i = currentIteration
        /\ PluginAt(k).name \in issuedOn
        /\ HasKey(performanceImpact, PluginAt(k).name)
        /\ file = Progress(currentIteration)

\* C3.  'stop' may arrive at any await of the loop.  The flag is read only
\* at the top of the loop: an iteration in progress when it arrives is not
\* left because of it and is complete (measured, recorded, activate sent,
\* currentIteration advanced, checkpoint written) when the loop is left, and
\* once the flag is set no deactivate command is sent.
C3_StopTakesEffectAtBoundary ==
  /\ [][C3_NoDeactivateAfterStop]_vars
  /\ [][C3_IterationNotLeft]_vars
  /\ []C3_StoppedAfterCompleteIteration

\* 'stop' arrived during an iteration, and the loop was left at the next
\* boundary with plugins still to visit.
C3_Witness ==
  /\ pc = "finalizing" /\ shouldStop /\ stopIter = {i - 1}
  /\ i < Len(plugins)
  /\ Active(PluginAt(i))

\* C4.  After a toggle command of this process has failed, the process takes
\* no measurement, sends no toggle command, does not advance
\* currentIteration and does not call saveProgress.
C4_AbortOnToggleFailure ==
  [][(toggleFailed /\ run' = run) =>
        /\ measured' = measured
        /\ issuedOff' = issuedOff /\ issuedOn' = issuedOn
        /\ currentIteration' = currentIteration
        /\ saveCalls' = saveCalls]_vars

\* From a measurement pass the run moves only on within the pass, to the
\* loop (after the baseline) or to the activate command (after a plugin's
\* pass): never to the catch of main.
C5_PassNeverAborts ==
  pc \in {"baseline", "measuring"} =>
     pc' \in {"baseline", "measuring", "loop", "activating"}

InPass(pass) ==
  IF pass = 0 THEN pc = "baseline"
  ELSE pc = "measuring" /\ PluginAt(i).name = pass

\* The failure of `page` in `pass` is stored as 'Error'; once the pass of a
\* plugin is over its comparison for the page is 'Error' and its activate
\* command has been sent.
C5_Recorded(pass, page) ==
  IF InPass(pass) THEN results[page] = Error
  ELSE IF pass = 0 THEN baselinePerformance[page] = Error
  ELSE /\ HasKey(performanceImpact, pass)
       /\ performanceImpact[GetKey(performanceImpact, pass)].cmp[page]
             = ErrorCmp
       /\ pass \in issuedOn

C5_FailuresRecorded ==
  /\ \A f \in failures : C5_Recorded(f[1], f[2])
  /\ Len(baselinePerformance) \in {0, NumPages}
  /\ \A k \in 1..Len(performanceImpact) :
        DOMAIN performanceImpact[k].cmp = PAGES_TO_TEST

\* C5.  A lighthouse run that throws, in the baseline pass or in a plugin's
\* pass, never ends the run: the failure is stored as 'Error' for that page
\* of that pass, every stored pass covers all pages, and after a plugin's
\* pass with a failure the activate command is sent and the loop goes on.
C5_MeasurementFailureIsRecoverable ==
  /\ [][C5_PassNeverAborts]_vars
  /\ []C5_FailuresRecorded

\* The first page of the first plugin's pass failed; the second page was
\* measured, the plugin was activated again and checkpointed, and the second
\* plugin has been deactivated.
C5_Witness ==
  /\ <<1, 1>> \in failures
  /\ performanceImpact # <<>>
  /\ performanceImpact[1].cmp[1] = ErrorCmp
  /\ ~performanceImpact[1].cmp[2].error
  /\ remote[1]
  /\ wroteFile /\ file.currentIteration = 1
  /\ pc = "settle1" /\ i = 1

\* C6.  When a checkpoint has just been written: every eligible plugin at an
\* index below the written currentIteration has been deactivated, measured
\* and activated again and has its entry in the written impact record, and
\* no plugin that was active at the start is inactive on the server.
JustSaved == wroteFile /\ pc = "loop" /\ i = currentIteration

C6_CheckpointIsConsistent ==
  JustSaved =>
     /\ file = Progress(currentIteration)
     /\ \A k \in 1..file.currentIteration :
           Active(file.plugins[k]) =>
              /\ HasKey(file.performanceImpact, file.plugins[k].name)
              /\ \/ restored /\ k <= startIter
                 \/ file.plugins[k].name \in issuedOff \cap issuedOn
     /\ \A k \in 1..Len(plugins) :
           Active(plugins[k]) => remote[plugins[k].name]

\* C7.  saveProgress is called once after each completed cycle and nowhere
\* else: outside the wait that follows the activate command, the calls of
\* saveProgress equal the activate calls that have returned; in that wait
\* there is one call less.
C7_OneSavePerCompletedCycle ==
  IF pc = "settle2" THEN activated = saveCalls + 1
  ELSE saveCalls = activated

\* A run that passed over an inactive plugin, completed one cycle, was
\* stopped and has ended: saveProgress was called once.
C7_Witness ==
  /\ pc = "done" /\ shouldStop
  /\ \E k \in 1..Len(plugins) : ~Active(plugins[k])
  /\ saveCalls = 1 /\ activated = 1

\* C8 (as stated).  On a fresh start, when the first deactivate command is
\* sent, progress.json holds the plugin list, the baseline, an empty impact
\* record and currentIteration 0.
C8_BaselinePersistedBeforeFirstToggle ==
  (~restored /\ pc = "deactivating" /\ Cardinality(issuedOff) = 1) =>
     file = [exists |-> TRUE, plugins |-> plugins,
             baselinePerformance |-> baselinePerformance,
             performanceImpact |-> <<>>, currentIteration |-> 0]

\* C8 (amended).  On a fresh start nothing is written to progress.json until
\* the first cycle is complete; what is written then holds the plugin list,
\* the baseline, a non-empty impact record and a currentIteration >= 1.
C8_FirstCheckpointAfterFirstCycle ==
  ~restored =>
     /\ activated = 0 => ~wroteFile
     /\ wroteFile =>
           /\ file.exists
           /\ file.plugins = plugins
           /\ file.baselinePerformance = baselinePerformance
           /\ Len(file.performanceImpact) >= 1
           /\ file.currentIteration >= 1

\* A fresh run has written its first checkpoint, after a first deactivate
\* command that found no checkpoint of this run.
C8_Witness ==
  /\ ~restored /\ wroteFile /\ saveCalls = 1
  /\ file.baselinePerformance = baselinePerformance
  /\ Len(file.performanceImpact) = 1

\* C9.  The globals are read from progress.json iff --resume is given and
\* progress.json exists.  Otherwise the run connects, fetches the plugin list
\* and measures the baseline, and enters the loop with an empty impact record
\* and currentIteration 0.
EnteredLoop ==
  pc \in {"loop", "finalizing", "ranking", "analyzing", "done"} \cup IterPcs

C9_RestoreIffResumeAndCheckpoint ==
  pc # "start" =>
     /\ restored = (resume /\ hadFile)
     /\ (restored /\ issuedOff = {}) =>
           /\ plugins = file.plugins
           /\ baselinePerformance = file.baselinePerformance
           /\ performanceImpact = file.performanceImpact
           /\ currentIteration = file.currentIteration
           /\ measured = 0
     /\ (~restored /\ EnteredLoop) =>
           /\ Len(plugins) = NumPlugins
           /\ Len(baselinePerformance) = NumPages
           /\ measured >= NumPages
           /\ startIter = 0
           /\ Keys(performanceImpact) \subseteq issuedOn
           /\ issuedOff = {} =>
                 performanceImpact = <<>> /\ currentIteration = 0

\* A second process started without --resume while progress.json exists has
\* entered the loop fresh.
C9_Witness ==
  /\ ~resume /\ hadFile /\ file.exists /\ file.performanceImpact # <<>>
  /\ pc = "loop" /\ i = 0
  /\ performanceImpact = <<>> /\ currentIteration = 0

\* C10 (as stated).  Where both measurements of a page are scores, the diff
\* of the comparison is current - baseline and faster is (diff > 0).
BothScores(page) == inB[page] # Error /\ inC[page] # Error

C10_DiffExact ==
  outCmp # <<>> =>
     \A page \in PAGES_TO_TEST :
        BothScores(page) =>
           /\ ParseFloat(outCmp[page].diff) = inC[page] - inB[page]
           /\ outCmp[page].faster = (outCmp[page].diff > 0)

\* C10 (amended).  Where both measurements of a page are scores, the diff of
\* the comparison is current - baseline rounded to two decimals (it is within
\* half a hundredth of the difference), and faster is (current > baseline),
\* decided on the difference before rounding; faster is false when the two
\* scores are equal.
C10_DiffRoundedFasterExact ==
  outCmp # <<>> =>
     \A page \in PAGES_TO_TEST :
        BothScores(page) =>
           /\ ~outCmp[page].error
           /\ ParseFloat(outCmp[page].diff) - (inC[page] - inB[page])
                 \in -5..5
           /\ outCmp[page].faster = (inC[page] > inB[page])
           /\ inC[page] = inB[page] => ~outCmp[page].faster

\* One page with equal scores (not faster), one page faster by less than half
\* a hundredth (diff 0.00, faster).
C10_Witness ==
  /\ outCmp # <<>>
  /\ BothScores(1) /\ inC[1] = inB[1] /\ ~outCmp[1].faster
  /\ BothScores(2) /\ inC[2] - inB[2] = 4
  /\ outCmp[2].diff = 0 /\ outCmp[2].faster

\* C11.  comparePerformance has one comparison per page of the baseline, and
\* for a page whose baseline measurement or whose current measurement (or
\* both) is 'Error' that comparison is 'Error', whatever the other
\* measurement is.
C11_FailureIsUnavailable ==
  outCmp # <<>> =>
     /\ DOMAIN outCmp = DOMAIN inB
     /\ \A page \in DOMAIN inB :
           (inB[page] = Error \/ inC[page] = Error) =>
              outCmp[page] = ErrorCmp

\* A baseline failure against a score on one page, a score against a
\* failure of the current pass on the other: both comparisons are 'Error'.
C11_Witness ==
  /\ outCmp # <<>>
  /\ inB[1] = Error /\ inC[1] = 90000 /\ outCmp[1] = ErrorCmp
  /\ inB[2] = 80000 /\ inC[2] = Error /\ outCmp[2] = ErrorCmp

\* The consequence in the controller: a page whose baseline measurement
\* failed is 'Error' in the entry of every plugin, in memory and in
\* progress.json, also after the state was read back from progress.json.
C11_FailedBaselinePageEverywhere ==
  /\ \A k \in 1..Len(performanceImpact) :
        \A page \in DOMAIN baselinePerformance :
           baselinePerformance[page] = Error =>
              performanceImpact[k].cmp[page] = ErrorCmp
  /\ file.exists =>
        \A k \in 1..Len(file.performanceImpact) :
           \A page \in DOMAIN file.baselinePerformance :
              file.baselinePerformance[page] = Error =>
                 file.performanceImpact[k].cmp[page] = ErrorCmp

\* Both plugins have their entry, the first page of the baseline failed and
\* the state was read back from progress.json.
C11_FailedBaselineReached ==
  /\ Len(performanceImpact) = NumPlugins
  /\ baselinePerformance[1] = Error
  /\ restored

\* The total score delta of one entry: the sum of the diff values (in
\* hundredths) over the pages whose comparison is not 'Error'.
RECURSIVE TotalScoreDelta(_, _)
TotalScoreDelta(cmp, pages) ==
  IF pages = {} THEN 0
  ELSE LET page == CHOOSE q \in pages : TRUE
       IN (IF cmp[page].error THEN 0 ELSE cmp[page].diff)
             + TotalScoreDelta(cmp, pages \ {page})

TotalOf(entry) == TotalScoreDelta(entry.cmp, DOMAIN entry.cmp)

\* ranked lists every entry of record exactly once, in descending order of
\* total, entries of equal total in the order they have in record.
IsRankingOf(ranked, record) ==
  /\ Len(ranked) = Len(record)
  /\ \A k \in 1..Len(record) :
        Cardinality({j \in 1..Len(ranked) : ranked[j] = record[k]}) = 1
  /\ \A j1, j2 \in 1..Len(ranked) :
        j1 < j2 =>
           /\ TotalOf(ranked[j1]) >= TotalOf(ranked[j2])
           /\ TotalOf(ranked[j1]) = TotalOf(ranked[j2]) =>
                 GetKey(record, ranked[j1].name)
                    < GetKey(record, ranked[j2].name)

\* C12.  The sorted list holds every entry of the impact record exactly
\* once, in descending order of the total score delta (the sum of the diff
\* values of the pages that have one; an 'Error' page adds 0), and entries
\* of equal total keep the order in which they were recorded.
C12_RankingIsStableDescending ==
  outRank # <<>> => IsRankingOf(outRank, inImpact)

\* Recorded in the order C, A, B with totals C < A = B, where A and B each
\* have an 'Error' page: the sorted list is A, B, C.
C12_Witness ==
  /\ Len(inImpact) = 3 /\ Len(outRank) = 3
  /\ TotalOf(inImpact[1]) < TotalOf(inImpact[2])
  /\ TotalOf(inImpact[2]) = TotalOf(inImpact[3])
  /\ inImpact[2].cmp # inImpact[3].cmp
  /\ \E page \in PAGES_TO_TEST : inImpact[2].cmp[page] = ErrorCmp
  /\ outRank = <<inImpact[2], inImpact[3], inImpact[1]>>

\* In the controller the entries are recorded in the order of the plugin
\* list, also when some were read from progress.json, and what main reports
\* is the ranking of the impact record it ends with.
C12_ReportIsRankingOfImpact ==
  /\ \A k1, k2 \in 1..Len(performanceImpact) :
        k1 < k2 => performanceImpact[k1].name < performanceImpact[k2].name
  /\ pc \in {"analyzing", "done"} =>
        IsRankingOf(sortedImpact, performanceImpact)

\* A resumed process reports a record read from progress.json.
C12_RestoredReportReached ==
  /\ pc = "done" /\ restored
  /\ Len(sortedImpact) = NumPlugins

\* C13.  When ssh.connect has rejected, main is in its catch and stays
\* there: in that process no plugin list was fetched, no toggle command was
\* sent, no measurement was taken, saveProgress was not called and
\* progress.json was not written.
C13_ConnectionErrorTouchesNothing ==
  abortCause = "connect" =>
     /\ pc = "aborted"
     /\ ~connected
     /\ plugins = <<>>
     /\ issuedOff = {} /\ issuedOn = {}
     /\ measured = 0
     /\ saveCalls = 0 /\ ~wroteFile

\* The second process could not connect; the checkpoint an earlier process
\* wrote is still there.
C13_Witness ==
  /\ abortCause = "connect" /\ pc = "aborted"
  /\ run = 2 /\ file.exists

\* Once fs.writeFileSync has thrown, the process sends no toggle command,
\* takes no measurement, does not write progress.json and stays in the
\* catch of main.
C14_NothingAfterFailedSave ==
  (abortCause = "save" /\ run' = run) =>
     /\ pc' = "aborted"
     /\ issuedOff' = issuedOff /\ issuedOn' = issuedOn
     /\ measured' = measured
     /\ file' = file /\ saveCalls' = saveCalls

\* C14.  When the write of progress.json fails, the exception reaches the
\* catch of main, which reports it; the loop is not continued: no plugin is
\* deactivated after the failed save.
C14_FailedSaveEndsRun ==
  /\ [](abortCause = "save" => pc = "aborted")
  /\ [][C14_NothingAfterFailedSave]_vars

\* The save after the first plugin's cycle failed; the second plugin is
\* active in the list and no command was sent for it.
C14_Witness ==
  /\ abortCause = "save" /\ pc = "aborted"
  /\ i = 0 /\ currentIteration = 1
  /\ Len(plugins) = NumPlugins
  /\ \A k \in 2..Len(plugins) :
        Active(plugins[k]) /\ plugins[k].name \notin issuedOff

\* C15.  When main has ended in its catch (after a connection, toggle or
\* persistence error) the process ends, nothing was reported as final, and
\* what the user can recover is progress.json as it was last written.
C15_FatalErrorEndsProcess ==
  (pc = "aborted" /\ abortCause \in {"connect", "toggle", "save"}) =>
     /\ ProcessExits
     /\ sortedImpact = <<>>

\* The indices of the plugins that were active in the list when the
\* experiment started and are inactive on the server.
DisabledEligible ==
  {k \in 1..Len(plugins) : Active(plugins[k]) /\ ~remote[plugins[k].name]}

C16_AtMostOneDisabled == Cardinality(DisabledEligible) <= 1

\* A deactivate command is sent only when every activate command sent
\* before it has returned.
C16_NoOverlap ==
  [][(pc = "loop" /\ pc' = "deactivating") =>
        /\ issuedOff \subseteq issuedOn
        /\ activated = Cardinality(issuedOn)]_vars

\* C16.  At most one plugin that was active at the start is inactive on the
\* server, and it is the plugin of the iteration in progress (or of the
\* iteration an error ended).
C16_OneDisabledInIteration ==
  /\ C16_AtMostOneDisabled
  /\ \A k \in DisabledEligible :
        k = i + 1 /\ pc \in IterPcs \cup {"aborted"}

\* For a plugin that is not active in the plugin list of the process no
\* toggle command was sent, no iteration is in progress, and it has no entry
\* in the impact record, in memory or in the progress.json of this list.
C17_InactiveUntouched ==
  \A k \in 1..Len(plugins) :
     ~Active(plugins[k]) =>
        /\ plugins[k].name \notin issuedOff \cup issuedOn
        /\ ~(pc \in IterPcs /\ i = k - 1)
        /\ ~HasKey(performanceImpact, plugins[k].name)
        /\ (file.exists /\ file.plugins = plugins) =>
              ~HasKey(file.performanceImpact, plugins[k].name)

\* The step the loop takes at a plugin that is not active changes nothing
\* but the loop index: nothing is measured, recorded or written.
C17_InactivePassedOver ==
  (pc = "loop" /\ i < Len(plugins) /\ ~Active(PluginAt(i))) =>
     /\ pc' \in {"loop", "finalizing"}
     /\ measured' = measured
     /\ remote' = remote
     /\ performanceImpact' = performanceImpact
     /\ currentIteration' = currentIteration
     /\ saveCalls' = saveCalls /\ file' = file

\* C17.  A plugin whose status in the plugin list is not 'active' is passed
\* over: no deactivate or activate command is sent for it, no measurement
\* pass is taken for it, it gets no entry in the impact record and
\* saveProgress is not called for it.
C17_InactiveIsSkipped ==
  /\ []C17_InactiveUntouched
  /\ [][C17_InactivePassedOver]_vars

\* The first plugin of the list is inactive and was passed over; the pass of
\* the second plugin is being measured and nothing has been written.
C17_Witness ==
  /\ pc = "measuring" /\ i = 1
  /\ ~Active(plugins[1]) /\ Active(plugins[2])
  /\ issuedOff = {plugins[2].name}
  /\ performanceImpact = <<>> /\ saveCalls = 0 /\ ~file.exists

\* Behind the loop ssh.dispose() has been called once, the connection is
\* released and the readline interface closed; before, dispose has not been
\* called and nothing has been ranked.
C18_ReleasedBehindLoop ==
  IF pc \in EndPcs
  THEN disposeCalls = 1 /\ ~connected /\ ~rlOpen
  ELSE disposeCalls = 0 /\ sortedImpact = <<>>

\* The step that follows the loop, whichever way the loop was left, is the
\* release; the ranking is computed only after it, and the connection is not
\* released anywhere else.
C18_ReleaseThenRank ==
  /\ pc = "finalizing" =>
        /\ pc' = "ranking"
        /\ ~connected' /\ ~rlOpen'
        /\ disposeCalls' = disposeCalls + 1
        /\ sortedImpact' = sortedImpact
  /\ (pc = "loop" /\ pc' \notin {"loop", "deactivating"}) =>
        pc' = "finalizing"
  /\ (run' = run /\ sortedImpact' # sortedImpact) =>
        pc = "ranking" /\ disposeCalls = 1 /\ ~connected
  /\ (run' = run /\ connected /\ ~connected') => pc = "finalizing"

\* C18.  When the loop is left because every plugin was visited or because
\* the stop flag was seen, main closes the readline interface and releases
\* the ssh connection, once, and only then sorts and reports.
C18_ReleaseOnceBeforeRanking ==
  /\ []C18_ReleasedBehindLoop
  /\ [][C18_ReleaseThenRank]_vars

\* A fresh run left the loop on 'stop' with a plugin still to visit, released
\* the connection it had made and reported the one entry it had.
C18_Witness ==
  /\ pc = "done" /\ shouldStop /\ ~restored
  /\ i < Len(plugins)
  /\ disposeCalls = 1 /\ ~connected /\ ~rlOpen
  /\ Len(sortedImpact) = 1

\* new is old with the entry of one plugin, which had none, added behind.
AddsOne(old, new) ==
  /\ Len(new) = Len(old) + 1
  /\ SubSeq(new, 1, Len(old)) = old
  /\ ~HasKey(old, new[Len(new)].name)

\* In a process, a step other than the reading of progress.json leaves the
\* impact record unchanged or adds the entry of one plugin that had none.
C19_RecordGrows ==
  (run' = run /\ restored' = restored) =>
     \/ performanceImpact' = performanceImpact
     \/ AddsOne(performanceImpact, performanceImpact')

\* What is written to progress.json is the impact record in memory.
C19_CheckpointIsRecord ==
  file' # file => file'.performanceImpact = performanceImpact'

\* C19 (as stated).  In every run the impact record only grows, by one new
\* entry at a time; an entry once in memory or in progress.json is never
\* changed or removed, and from one checkpoint to the next exactly one entry
\* is added.
C19_ImpactOnlyGrows ==
  /\ [][C19_RecordGrows]_vars
  /\ [][C19_CheckpointIsRecord]_vars
  /\ [][(file' # file /\ file.exists) =>
           AddsOne(file.performanceImpact, file'.performanceImpact)]_vars

\* C19 (amended).  Within a process the impact record only grows, by one
\* new entry at a time, the entries read from progress.json included, and
\* from one checkpoint of the process to its next exactly one entry is
\* added.  The first checkpoint of a fresh start holds one entry and
\* replaces whatever progress.json held before.
C19_ImpactGrowsWithinExperiment ==
  /\ [][C19_RecordGrows]_vars
  /\ [][C19_CheckpointIsRecord]_vars
  /\ [][file' # file =>
           IF wroteFile \/ restored
           THEN AddsOne(file.performanceImpact, file'.performanceImpact)
           ELSE Len(file'.performanceImpact) = 1]_vars

\* The second checkpoint of a fresh start that found a progress.json of an
\* earlier process: it holds the first entry unchanged and one more.
C19_Witness ==
  /\ run = 2 /\ ~restored /\ hadFile
  /\ saveCalls = 2 /\ pc = "loop"
  /\ Len(file.performanceImpact) = 2
  /\ file.performanceImpact = performanceImpact

\* C20.  While a deactivate or activate command is outstanding the ssh
\* connection is established: a successful connect came before, on a fresh
\* start and on a resume, and the connection has not been released.
C20_TogglesOnlyWhileConnected ==
  pc \in {"deactivating", "activating"} =>
     connected /\ disposeCalls = 0

====
